---------------------------- MODULE Spec2Model ----------------------------
(***************************************************************************)
(* Rolling one-hour statistics over timestamped events.                    *)
(*                                                                         *)
(* The repository holds two parallel implementations of the same store:    *)
(*   "service" : EventService   (src/event_service.py, used by src/app.py) *)
(*   "store"   : EventStore     (src/app/storage.py, used by app/main.py)  *)
(* and, as "utils", the free functions of src/app/utils.py applied by a    *)
(* caller to a list of its own.                                            *)
(* A behaviour runs one of them (impl is chosen in Init and never          *)
(* changes).  Threads call the operations of that implementation; every    *)
(* statement that touches the lock, the deque or the clock is one step.    *)
(*                                                                         *)
(* Time is counted in hours (TIME_WINDOW = timedelta(hours=1) = 1).        *)
(* Values are binary floating-point numbers with a PREC-bit significand    *)
(* (Python floats have 53; the rounding rule, round-half-to-even, is the   *)
(* same), written as the non-negative integers m * 2^e with m < 2^PREC.    *)
(***************************************************************************)
EXTENDS Integers, Sequences, FiniteSets, Bags

\* ------------------------------------------------------------------ bounds
MaxTime == 2
MaxEvents == 3
MaxConcEvents == 2
PREC == 3

\* ------------------------------------------------------- program constants
TIME_WINDOW == 1
None == -1

Threads == {1, 2}
NoThread == 0
Times == 0..MaxTime
Values == {2, 6}
Impls == {"service", "store", "utils"}

VARIABLES
  impl,      \* which implementation this behaviour runs
  clock,     \* datetime.now(timezone.utc), in hours
  events,    \* self._events: the deque of (timestamp, value)
  lock,      \* self._lock: the thread that holds it, or NoThread
  pc,        \* each thread's position
  arg,       \* each thread's (timestamp, value) argument of add / store
  cutoff,    \* each thread's local cutoff_time of get_statistics / get_recent_stats
  ccut,      \* each thread's local cutoff_time of _cleanup_old_events
  recent,    \* each thread's local recent_values
  history,   \* ghost: every event appended since the last clear, in order
  seen,      \* ghost: how many events the deque held when a summary read it
  pre,       \* ghost: the deque as the lock holder found it
  callTime,  \* ghost: the clock when a store_event call was made
  cap,       \* bound: how many events may be recorded before a clear
  prev,      \* ghost: now and result of the last summary, while nothing was recorded since
  req,       \* each thread's HTTP request body while post_event handles it
  dbg,       \* per thread: the iterator of debug_events and what it has listed
  iters      \* per thread: popleft calls of the eviction loop it is running

vars == <<impl, clock, events, lock, pc, arg, cutoff, ccut, recent, history, seen, pre, callTime, cap, prev, req, dbg, iters>>

Event(ts, v) == [ts |-> ts, value |-> v]
NoArg == [ts |-> None, value |-> None]
NoCutoff == -9

\* ------------------------------------------------- POST /event requests
\* A field of the JSON body: absent, or present with a value of some kind.
Field(kind, x) == [kind |-> kind, x |-> x]
NoField == Field("absent", None)

\* "timestamp": an ISO 8601 string ending in Z, one with offset +01:00 (x is
\* the local hour), or a string that is no timestamp.
TsFields ==
  {NoField, Field("text", None)}
    \cup {Field("iso", x) : x \in Times}
    \cup {Field("offset", x) : x \in 1..MaxTime}

\* "value": a JSON number, a string that is no number, null, or true.
ValueFields ==
  {NoField, Field("text", None), Field("null", None), Field("true", None)}
    \cup {Field("number", v) : v \in Values}

Body(json, ts, value) == [json |-> json, ts |-> ts, value |-> value]
NoReq == Body("none", NoField, NoField)

\* No iteration of debug_events under way.
NoIter == [state |-> None, listed |-> <<>>]

\* What a client can send: no body at all, or a JSON object.
Bodies ==
  {Body("missing", NoField, NoField)}
    \cup {Body("object", f, g) : f \in TsFields, g \in ValueFields}

\* --------------------------------------------------------- float arithmetic
RECURSIVE Pow2(_)
Pow2(n) == IF n = 0 THEN 1 ELSE 2 * Pow2(n - 1)

\* The spacing of the floats around the rational num/den: the least power of
\* two s with floor((num/den)/s) < 2^PREC.
RECURSIVE Spacing(_, _, _)
Spacing(num, den, s) ==
  IF num \div (den * s) < Pow2(PREC) THEN s ELSE Spacing(num, den, 2 * s)

\* The float nearest to num/den, ties to the even significand.
RoundToFloat(num, den) ==
  LET s  == Spacing(num, den, 1)
      m  == num \div (den * s)
      lo == m * s
      twiceRem == 2 * (num - lo * den)
      half == s * den
  IN  IF twiceRem < half THEN lo
      ELSE IF twiceRem > half THEN lo + s
      ELSE IF m % 2 = 0 THEN lo ELSE lo + s

FloatAdd(a, b) == RoundToFloat(a + b, 1)
FloatDiv(a, n) == RoundToFloat(a, n)

\* sum(values): left to right from 0, each partial sum rounded.
RECURSIVE PySum(_)
PySum(vals) ==
  IF vals = <<>> THEN 0
  ELSE FloatAdd(PySum(SubSeq(vals, 1, Len(vals) - 1)), vals[Len(vals)])

\* The exact sum, as statistics.mean forms it with fractions.
RECURSIVE ExactSum(_)
ExactSum(vals) == IF vals = <<>> THEN 0 ELSE Head(vals) + ExactSum(Tail(vals))

\* Faulty variant: the first value is taken for the smallest, as if the list were sorted.
PyMinFirst(vals) == vals[1]

\* min(values), max(values): one pass keeping the best so far.
RECURSIVE PyMin(_)
PyMin(vals) ==
  IF Len(vals) = 1 THEN vals[1]
  ELSE LET m == PyMin(SubSeq(vals, 1, Len(vals) - 1))
       IN  IF vals[Len(vals)] < m THEN vals[Len(vals)] ELSE m

RECURSIVE PyMax(_)
PyMax(vals) ==
  IF Len(vals) = 1 THEN vals[1]
  ELSE LET m == PyMax(SubSeq(vals, 1, Len(vals) - 1))
       IN  IF vals[Len(vals)] > m THEN vals[Len(vals)] ELSE m

\* Faulty variant: the comparison is strict: an event exactly at the cutoff is dropped.
RECURSIVE FilterRecentStrict(_, _)
FilterRecentStrict(evs, cut) ==
  IF evs = <<>> THEN <<>>
  ELSE IF Head(evs).ts > cut
       THEN <<Head(evs).value>> \o FilterRecentStrict(Tail(evs), cut)
       ELSE FilterRecentStrict(Tail(evs), cut)

\* Faulty variant: the window is closed at now: later events are dropped.
FilterRecentClosed(evs, cut) ==
  LET sel == SelectSeq(evs, LAMBDA e : e.ts >= cut /\ e.ts <= cut + TIME_WINDOW)
  IN  [i \in 1..Len(sel) |-> sel[i].value]

\* Faulty variant: no filter: every stored value is taken.
FilterRecentNone(evs, cut) == [i \in 1..Len(evs) |-> evs[i].value]

\* [value for ts, value in events if ts >= cutoff_time]
RECURSIVE FilterRecent(_, _)
FilterRecent(evs, cut) ==
  IF evs = <<>> THEN <<>>
  ELSE IF Head(evs).ts >= cut
       THEN <<Head(evs).value>> \o FilterRecent(Tail(evs), cut)
       ELSE FilterRecent(Tail(evs), cut)

EmptyStats == [count |-> 0, min |-> None, max |-> None, mean |-> None]

\* Faulty variant: an empty window reports zeros instead of None.
ServiceStatsZeros(vals) ==
  IF vals = <<>> THEN [count |-> 0, min |-> 0, max |-> 0, mean |-> 0]
  ELSE [count |-> Len(vals), min |-> PyMin(vals), max |-> PyMax(vals),
        mean |-> FloatDiv(PySum(vals), Len(vals))]

\* EventService.get_statistics, lines 77-96: mean = sum(recent_values) / count
ServiceStats(vals) ==
  IF vals = <<>> THEN EmptyStats
  ELSE [count |-> Len(vals), min |-> PyMin(vals), max |-> PyMax(vals),
        mean |-> FloatDiv(PySum(vals), Len(vals))]

\* EventStore.get_recent_stats, lines 38-51: mean = statistics.mean
StoreStats(vals) ==
  IF vals = <<>> THEN EmptyStats
  ELSE [count |-> Len(vals), min |-> PyMin(vals), max |-> PyMax(vals),
        mean |-> RoundToFloat(ExactSum(vals), Len(vals))]

\* utils.is_within_last_hour(timestamp, reference_time)
is_within_last_hour(ts, ref) == ts >= ref - TIME_WINDOW

\* utils.filter_recent_events(events, reference_time)
RECURSIVE filter_recent_events(_, _)
filter_recent_events(evs, ref) ==
  IF evs = <<>> THEN <<>>
  ELSE IF Head(evs).ts >= ref - TIME_WINDOW
       THEN <<Head(evs).value>> \o filter_recent_events(Tail(evs), ref)
       ELSE filter_recent_events(Tail(evs), ref)

\* utils.calculate_statistics: mean = sum(values) / len(values)
calculate_statistics(vals) ==
  IF vals = <<>> THEN EmptyStats
  ELSE [count |-> Len(vals), min |-> PyMin(vals), max |-> PyMax(vals),
        mean |-> FloatDiv(PySum(vals), Len(vals))]

\* ----------------------------------------------------------------- results
\* A summary has read the deque and still holds the lock: recent_values is
\* what its statistics are computed from, history is what had been recorded.
AtSummary(t) == pc[t] \in {"gs_return", "rs_release", "ut_return"}

\* The dictionary the summary call of thread t returns.
Returned(t) ==
  CASE impl = "service" -> ServiceStats(recent[t])
    [] impl = "store" -> StoreStats(recent[t])
    [] impl = "utils" -> calculate_statistics(recent[t])

\* now, as the summary of thread t read it.
NowOf(t) == cutoff[t] + TIME_WINDOW

\* prev when the last summary is not being remembered.
Untracked == [now |-> NoCutoff, stats |-> EmptyStats]

\* prev when no summary has returned since the last record or clear.
NoPrev == [now |-> None, stats |-> EmptyStats]

\* prev after a step that would set it to p.
Remember(p) == IF prev = Untracked THEN Untracked ELSE p

\* What the summary of thread t leaves behind when it ends.
SummaryOf(t) == [now |-> NowOf(t), stats |-> Returned(t)]

\* -------------------------------------------------------------------- lock
\* Faulty variant: a lock that never makes anyone wait.
CanAcquireAlways(t) == TRUE

\* "with self._lock": the lock is free.
CanAcquire(t) == lock = NoThread

\* The events that add_event / store_event calls still have to append.
PendingAdds == Cardinality({t \in Threads : pc[t] \in {"post_call", "add_wait", "add_append", "se_wait", "se_append"}})

\* ------------------------------------------------------------------- Init
Start ==
  /\ impl \in Impls
  /\ clock = 0
  /\ events = <<>>
  /\ lock = NoThread
  /\ pc = [t \in Threads |-> "idle"]
  /\ arg = [t \in Threads |-> NoArg]
  /\ cutoff = [t \in Threads |-> NoCutoff]
  /\ recent = [t \in Threads |-> <<>>]
  /\ history = <<>>
  /\ seen = [t \in Threads |-> None]
  /\ ccut = [t \in Threads |-> NoCutoff]
  /\ pre = <<>>
  /\ callTime = [t \in Threads |-> None]
  /\ req = [t \in Threads |-> NoReq]
  /\ dbg = [t \in Threads |-> NoIter]
  /\ iters = [t \in Threads |-> 0]

\* Concurrent callers record up to MaxConcEvents events; the last summary
\* is not remembered.
Init == Start /\ cap = MaxConcEvents /\ prev = Untracked

\* A single caller records up to MaxEvents events ...
SeqInit == Start /\ cap = MaxEvents /\ prev = Untracked

\* ... and, to compare one summary with the next, remembers the last summary
\* it was given.
TwiceInit == Start /\ cap = MaxEvents /\ prev = NoPrev

\* Faulty variant: a background timer evicts the front event as soon as the
\* advancing clock makes it stale.
TickEvicts ==
  /\ clock < MaxTime
  /\ clock' = clock + 1
  /\ events' = IF events # <<>> /\ Head(events).ts < clock + 1 - TIME_WINDOW
                THEN Tail(events) ELSE events
  /\ UNCHANGED <<impl, lock, pc, arg, cutoff, recent, history, seen, ccut, pre, callTime, cap, prev, req, dbg, iters>>

\* The clock advances on its own.
Tick ==
  /\ clock < MaxTime
  /\ clock' = clock + 1
  /\ UNCHANGED <<impl, events, lock, pc, arg, cutoff, recent, history, seen, ccut, pre, callTime, cap, prev, req, dbg, iters>>

\* ------------------------------------------------ EventService.add_event
AddCall(t) ==
  /\ impl = "service" /\ pc[t] = "idle"
  /\ Len(history) + PendingAdds < cap
  /\ \E ts \in Times, v \in Values :
       arg' = [arg EXCEPT ![t] = Event(ts, v)]
  /\ pc' = [pc EXCEPT ![t] = "add_wait"]
  /\ UNCHANGED <<impl, clock, events, lock, cutoff, recent, history, seen, ccut, pre, callTime, cap, prev, req, dbg, iters>>

AddAcquire(t) ==
  /\ pc[t] = "add_wait" /\ CanAcquire(t)
  /\ lock' = t
  /\ pre' = events
  /\ pc' = [pc EXCEPT ![t] = "add_append"]
  /\ UNCHANGED <<impl, clock, events, arg, cutoff, recent, history, seen, ccut, callTime, cap, prev, req, dbg, iters>>

\* Faulty variant: the deque is replaced by one that holds only the new event.
AddAppendOverwrite(t) ==
  /\ pc[t] = "add_append"
  /\ events' = <<arg[t]>>
  /\ history' = Append(history, arg[t])
  /\ arg' = [arg EXCEPT ![t] = NoArg]
  /\ pc' = [pc EXCEPT ![t] = "add_cleanup"]
  /\ prev' = Remember(NoPrev)
  /\ UNCHANGED <<impl, clock, lock, cutoff, recent, seen, ccut, pre, callTime, cap, req, dbg, iters>>

\* Faulty variant: appendleft for append: the new event goes to the front.
AddAppendLeft(t) ==
  /\ pc[t] = "add_append"
  /\ events' = <<arg[t]>> \o events
  /\ history' = Append(history, arg[t])
  /\ arg' = [arg EXCEPT ![t] = NoArg]
  /\ pc' = [pc EXCEPT ![t] = "add_cleanup"]
  /\ prev' = Remember(NoPrev)
  /\ UNCHANGED <<impl, clock, lock, cutoff, recent, seen, ccut, pre, callTime, cap, req, dbg, iters>>

AddAppend(t) ==
  /\ pc[t] = "add_append"
  /\ events' = Append(events, arg[t])
  /\ history' = Append(history, arg[t])
  /\ arg' = [arg EXCEPT ![t] = NoArg]
  /\ pc' = [pc EXCEPT ![t] = "add_cleanup"]
  /\ prev' = Remember(NoPrev)
  /\ UNCHANGED <<impl, clock, lock, cutoff, recent, seen, ccut, pre, callTime, cap, req, dbg, iters>>

\* ------------------------------------- EventService._cleanup_old_events
\* now = datetime.now(); cutoff_time = now - TIME_WINDOW
CleanupRead(t) ==
  /\ pc[t] \in {"add_cleanup", "gs_cleanup"}
  /\ ccut' = [ccut EXCEPT ![t] = clock - TIME_WINDOW]
  /\ pc' = [pc EXCEPT ![t] = IF pc[t] = "add_cleanup" THEN "add_loop" ELSE "gs_loop"]
  /\ UNCHANGED <<impl, clock, events, lock, arg, cutoff, recent, history, seen, pre, callTime, cap, prev, req, dbg, iters>>

\* Faulty variant: an event exactly at the cutoff is evicted too.
IsStaleInclusive(e, cut) == e.ts <= cut

\* while self._events and self._events[0][0] < cutoff_time
IsStale(e, cut) == e.ts < cut

\* The whole loop at once: the deque without its longest stale prefix.
RECURSIVE EvictPrefix(_, _)
EvictPrefix(evs, cut) ==
  IF evs # <<>> /\ IsStale(Head(evs), cut) THEN EvictPrefix(Tail(evs), cut) ELSE evs

\* Faulty variant: pop() for popleft(): the newest event is removed.
CleanupPopRight(t) ==
  /\ pc[t] \in {"add_loop", "gs_loop"}
  /\ events # <<>> /\ IsStale(Head(events), ccut[t])
  /\ events' = SubSeq(events, 1, Len(events) - 1)
  /\ iters' = [iters EXCEPT ![t] = @ + 1]
  /\ UNCHANGED <<impl, clock, lock, pc, arg, cutoff, ccut, recent, history, seen, pre, callTime, cap, prev, req, dbg>>

CleanupPop(t) ==
  /\ pc[t] \in {"add_loop", "gs_loop"}
  /\ events # <<>> /\ IsStale(Head(events), ccut[t])
  /\ events' = Tail(events)
  /\ iters' = [iters EXCEPT ![t] = @ + 1]
  /\ UNCHANGED <<impl, clock, lock, pc, arg, cutoff, recent, history, seen, ccut, pre, callTime, cap, prev, req, dbg>>

CleanupExit(t) ==
  /\ pc[t] \in {"add_loop", "gs_loop"}
  /\ ~(events # <<>> /\ IsStale(Head(events), ccut[t]))
  /\ pc' = [pc EXCEPT ![t] = IF pc[t] = "add_loop" THEN "add_release" ELSE "gs_filter"]
  /\ iters' = [iters EXCEPT ![t] = 0]
  /\ UNCHANGED <<impl, clock, events, lock, arg, cutoff, recent, history, seen, ccut, pre, callTime, cap, prev, req, dbg>>

\* Faulty variant: add_event returns without releasing the lock.
AddReleaseKeepsLock(t) ==
  /\ pc[t] = "add_release"
  /\ pre' = <<>>
  /\ ccut' = [ccut EXCEPT ![t] = NoCutoff]
  /\ pc' = [pc EXCEPT ![t] = IF req[t] = NoReq THEN "idle" ELSE "post_201"]
  /\ UNCHANGED <<impl, clock, events, lock, arg, cutoff, recent, history, seen, callTime, cap, prev, req, dbg, iters>>

AddRelease(t) ==
  /\ pc[t] = "add_release"
  /\ lock' = NoThread
  /\ pre' = <<>>
  /\ ccut' = [ccut EXCEPT ![t] = NoCutoff]
  /\ pc' = [pc EXCEPT ![t] = IF req[t] = NoReq THEN "idle" ELSE "post_201"]
  /\ UNCHANGED <<impl, clock, events, arg, cutoff, recent, history, seen, callTime, cap, prev, req, dbg, iters>>

\* ------------------------------------------------- app.py: post_event
\* request.get_json() (line 39): the parsed object; for a request without a
\* body either None or an exception raised inside the try block, depending
\* on the Flask version and on the Content-Type header.
GetJsonOutcomes(b) == IF b.json = "missing" THEN {"null", "raise"} ELSE {"data"}

\* datetime.fromisoformat(data['timestamp'].replace('Z', '+00:00')) (line 53):
\* the instant, an hour earlier than the local hour at offset +01:00.
ParseTimestamp(f) == IF f.kind = "offset" THEN f.x - 1 ELSE f.x
TimestampParses(f) == f.kind \in {"iso", "offset"}

\* float(data['value']) (line 59): ValueError for the text, TypeError for
\* null; float(True) is 1.0.
ParseValue(f) == IF f.kind = "true" THEN 1 ELSE f.x
ValueParses(f) == f.kind \in {"number", "true"}

\* A request arrives.
PostCall(t) ==
  /\ impl = "service" /\ pc[t] = "idle"
  /\ Len(history) + PendingAdds < cap
  /\ \E b \in Bodies : req' = [req EXCEPT ![t] = b]
  /\ pc' = [pc EXCEPT ![t] = "post_call"]
  /\ UNCHANGED <<impl, clock, events, lock, arg, cutoff, ccut, recent, history, seen, pre, callTime, cap, prev, dbg, iters>>

\* Lines 38-64 and 70-72: the body is read and validated; a valid event is
\* handed to add_event, anything else is answered at once.
PostValidate(t) ==
  /\ pc[t] = "post_call"
  /\ \E o \in GetJsonOutcomes(req[t]) :
       LET b == req[t]
           rejected == \/ o = "null"
                       \/ b.ts.kind = "absent" \/ b.value.kind = "absent"
                       \/ ~TimestampParses(b.ts) \/ ~ValueParses(b.value)
       IN  IF o = "raise"
             THEN /\ pc' = [pc EXCEPT ![t] = "post_500"]
                  /\ arg' = arg
           ELSE IF rejected
             THEN /\ pc' = [pc EXCEPT ![t] = "post_400"]
                  /\ arg' = arg
           ELSE /\ pc' = [pc EXCEPT ![t] = "add_wait"]
                /\ arg' = [arg EXCEPT ![t] =
                             Event(ParseTimestamp(b.ts), ParseValue(b.value))]
  /\ UNCHANGED <<impl, clock, events, lock, cutoff, ccut, recent, history, seen, pre, callTime, cap, prev, req, dbg, iters>>

\* The response is sent: 400 (lines 43-61), 500 (line 72) or 201 (line 68).
ResponsePcs == {"post_400", "post_500", "post_201"}

Status(t) ==
  CASE pc[t] = "post_400" -> 400
    [] pc[t] = "post_500" -> 500
    [] pc[t] = "post_201" -> 201

PostRespond(t) ==
  /\ pc[t] \in ResponsePcs
  /\ pc' = [pc EXCEPT ![t] = "idle"]
  /\ req' = [req EXCEPT ![t] = NoReq]
  /\ UNCHANGED <<impl, clock, events, lock, arg, cutoff, ccut, recent, history, seen, pre, callTime, cap, prev, dbg, iters>>

HttpStep(t) == PostCall(t) \/ PostValidate(t) \/ PostRespond(t)

\* ------------------------------------------- EventService.get_statistics
GsCall(t) ==
  /\ impl = "service" /\ pc[t] = "idle"
  /\ pc' = [pc EXCEPT ![t] = "gs_wait"]
  /\ UNCHANGED <<impl, clock, events, lock, arg, cutoff, recent, history, seen, ccut, pre, callTime, cap, prev, req, dbg, iters>>

GsAcquire(t) ==
  /\ pc[t] = "gs_wait" /\ CanAcquire(t)
  /\ lock' = t
  /\ pre' = events
  /\ pc' = [pc EXCEPT ![t] = "gs_cleanup"]
  /\ UNCHANGED <<impl, clock, events, arg, cutoff, recent, history, seen, ccut, callTime, cap, prev, req, dbg, iters>>

\* Lines 67-75: a second reading of the clock, and the filter.
GsFilter(t) ==
  /\ pc[t] = "gs_filter"
  /\ LET cut == clock - TIME_WINDOW
     IN  /\ cutoff' = [cutoff EXCEPT ![t] = cut]
         /\ recent' = [recent EXCEPT ![t] = FilterRecent(events, cut)]
  /\ seen' = [seen EXCEPT ![t] = Len(events)]
  /\ pc' = [pc EXCEPT ![t] = "gs_return"]
  /\ UNCHANGED <<impl, clock, events, lock, arg, history, ccut, pre, callTime, cap, prev, req, dbg, iters>>

\* Lines 77-96: the statistics are returned and the lock is released.
GsReturn(t) ==
  /\ pc[t] = "gs_return"
  /\ lock' = NoThread
  /\ pre' = <<>>
  /\ pc' = [pc EXCEPT ![t] = "idle"]
  /\ cutoff' = [cutoff EXCEPT ![t] = NoCutoff]
  /\ ccut' = [ccut EXCEPT ![t] = NoCutoff]
  /\ recent' = [recent EXCEPT ![t] = <<>>]
  /\ seen' = [seen EXCEPT ![t] = None]
  /\ prev' = Remember(SummaryOf(t))
  /\ UNCHANGED <<impl, clock, events, arg, history, callTime, cap, req, dbg, iters>>

\* ---------------------------------------------------- EventService.clear
ClearCall(t) ==
  /\ impl = "service" /\ pc[t] = "idle"
  /\ pc' = [pc EXCEPT ![t] = "clr_wait"]
  /\ UNCHANGED <<impl, clock, events, lock, arg, cutoff, recent, history, seen, ccut, pre, callTime, cap, prev, req, dbg, iters>>

ClearAcquire(t) ==
  /\ pc[t] = "clr_wait" /\ CanAcquire(t)
  /\ lock' = t
  /\ pre' = events
  /\ pc' = [pc EXCEPT ![t] = "clr_body"]
  /\ UNCHANGED <<impl, clock, events, arg, cutoff, recent, history, seen, ccut, callTime, cap, prev, req, dbg, iters>>

ClearBody(t) ==
  /\ pc[t] = "clr_body"
  /\ events' = <<>>
  /\ history' = <<>>
  /\ pc' = [pc EXCEPT ![t] = "clr_release"]
  /\ prev' = Remember(NoPrev)
  /\ UNCHANGED <<impl, clock, lock, arg, cutoff, recent, seen, ccut, pre, callTime, cap, req, dbg, iters>>

ClearRelease(t) ==
  /\ pc[t] = "clr_release"
  /\ lock' = NoThread
  /\ pre' = <<>>
  /\ pc' = [pc EXCEPT ![t] = "idle"]
  /\ UNCHANGED <<impl, clock, events, arg, cutoff, recent, history, seen, ccut, callTime, cap, prev, req, dbg, iters>>

\* ------------------------------------------ EventService.get_event_count
CountCall(t) ==
  /\ impl = "service" /\ pc[t] = "idle"
  /\ pc' = [pc EXCEPT ![t] = "cnt_wait"]
  /\ UNCHANGED <<impl, clock, events, lock, arg, cutoff, recent, history, seen, ccut, pre, callTime, cap, prev, req, dbg, iters>>

CountAcquire(t) ==
  /\ pc[t] = "cnt_wait" /\ CanAcquire(t)
  /\ lock' = t
  /\ pre' = events
  /\ pc' = [pc EXCEPT ![t] = "cnt_body"]
  /\ UNCHANGED <<impl, clock, events, arg, cutoff, recent, history, seen, ccut, callTime, cap, prev, req, dbg, iters>>

\* return len(self._events): the lock is released on the way out.
CountReturn(t) ==
  /\ pc[t] = "cnt_body"
  /\ lock' = NoThread
  /\ pre' = <<>>
  /\ pc' = [pc EXCEPT ![t] = "idle"]
  /\ UNCHANGED <<impl, clock, events, arg, cutoff, recent, history, seen, ccut, callTime, cap, prev, req, dbg, iters>>

\* ------------------------------------------------ EventStore.store_event
SeCall(t) ==
  /\ impl = "store" /\ pc[t] = "idle"
  /\ Len(history) + PendingAdds < cap
  /\ \E ts \in Times, v \in Values :
       arg' = [arg EXCEPT ![t] = Event(ts, v)]
  /\ callTime' = [callTime EXCEPT ![t] = clock]
  /\ pc' = [pc EXCEPT ![t] = "se_wait"]
  /\ UNCHANGED <<impl, clock, events, lock, cutoff, recent, history, seen, ccut, pre, cap, prev, req, dbg, iters>>

SeAcquire(t) ==
  /\ pc[t] = "se_wait" /\ CanAcquire(t)
  /\ lock' = t
  /\ pre' = events
  /\ pc' = [pc EXCEPT ![t] = "se_append"]
  /\ UNCHANGED <<impl, clock, events, arg, cutoff, recent, history, seen, ccut, callTime, cap, prev, req, dbg, iters>>

\* Faulty variant: appendleft for append: the new event goes to the front.
SeAppendLeft(t) ==
  /\ pc[t] = "se_append"
  /\ events' = <<arg[t]>> \o events
  /\ history' = Append(history, arg[t])
  /\ arg' = [arg EXCEPT ![t] = NoArg]
  /\ pc' = [pc EXCEPT ![t] = "se_release"]
  /\ prev' = Remember(NoPrev)
  /\ UNCHANGED <<impl, clock, lock, cutoff, recent, seen, ccut, pre, callTime, cap, req, dbg, iters>>

SeAppend(t) ==
  /\ pc[t] = "se_append"
  /\ events' = Append(events, arg[t])
  /\ history' = Append(history, arg[t])
  /\ arg' = [arg EXCEPT ![t] = NoArg]
  /\ pc' = [pc EXCEPT ![t] = "se_release"]
  /\ prev' = Remember(NoPrev)
  /\ UNCHANGED <<impl, clock, lock, cutoff, recent, seen, ccut, pre, callTime, cap, req, dbg, iters>>

SeRelease(t) ==
  /\ pc[t] = "se_release"
  /\ lock' = NoThread
  /\ pre' = <<>>
  /\ callTime' = [callTime EXCEPT ![t] = None]
  /\ pc' = [pc EXCEPT ![t] = "idle"]
  /\ UNCHANGED <<impl, clock, events, arg, cutoff, recent, history, seen, ccut, cap, prev, req, dbg, iters>>

\* -------------------------------------------- EventStore.get_recent_stats
\* cutoff_time is read before the lock is taken (line 24).
RsCall(t) ==
  /\ impl = "store" /\ pc[t] = "idle"
  /\ cutoff' = [cutoff EXCEPT ![t] = clock - TIME_WINDOW]
  /\ pc' = [pc EXCEPT ![t] = "rs_wait"]
  /\ UNCHANGED <<impl, clock, events, lock, arg, recent, history, seen, ccut, pre, callTime, cap, prev, req, dbg, iters>>

RsAcquire(t) ==
  /\ pc[t] = "rs_wait" /\ CanAcquire(t)
  /\ lock' = t
  /\ pre' = events
  /\ pc' = [pc EXCEPT ![t] = "rs_filter"]
  /\ UNCHANGED <<impl, clock, events, arg, cutoff, recent, history, seen, ccut, callTime, cap, prev, req, dbg, iters>>

RsFilter(t) ==
  /\ pc[t] = "rs_filter"
  /\ recent' = [recent EXCEPT ![t] = FilterRecent(events, cutoff[t])]
  /\ seen' = [seen EXCEPT ![t] = Len(events)]
  /\ pc' = [pc EXCEPT ![t] = "rs_loop"]
  /\ UNCHANGED <<impl, clock, events, lock, arg, cutoff, history, ccut, pre, callTime, cap, prev, req, dbg, iters>>

RsPop(t) ==
  /\ pc[t] = "rs_loop"
  /\ events # <<>> /\ IsStale(Head(events), cutoff[t])
  /\ events' = Tail(events)
  /\ iters' = [iters EXCEPT ![t] = @ + 1]
  /\ UNCHANGED <<impl, clock, lock, pc, arg, cutoff, recent, history, seen, ccut, pre, callTime, cap, prev, req, dbg>>

RsLoopExit(t) ==
  /\ pc[t] = "rs_loop"
  /\ ~(events # <<>> /\ IsStale(Head(events), cutoff[t]))
  /\ pc' = [pc EXCEPT ![t] = "rs_release"]
  /\ iters' = [iters EXCEPT ![t] = 0]
  /\ UNCHANGED <<impl, clock, events, lock, arg, cutoff, recent, history, seen, ccut, pre, callTime, cap, prev, req, dbg>>

RsRelease(t) ==
  /\ pc[t] = "rs_release"
  /\ lock' = NoThread
  /\ pre' = <<>>
  /\ cutoff' = [cutoff EXCEPT ![t] = NoCutoff]
  /\ seen' = [seen EXCEPT ![t] = None]
  /\ pc' = [pc EXCEPT ![t] = "rs_stats"]
  /\ prev' = Remember(SummaryOf(t))
  /\ UNCHANGED <<impl, clock, events, arg, recent, history, ccut, callTime, cap, req, dbg, iters>>

\* Lines 37-51, outside the lock: the statistics of recent_values are returned.
RsReturn(t) ==
  /\ pc[t] = "rs_stats"
  /\ pc' = [pc EXCEPT ![t] = "idle"]
  /\ recent' = [recent EXCEPT ![t] = <<>>]
  /\ UNCHANGED <<impl, clock, events, lock, arg, cutoff, history, seen, ccut, pre, callTime, cap, prev, req, dbg, iters>>

\* ------------------------------------------------------ app/utils.py
\* A caller keeps a list of (timestamp, value) pairs of its own (the list is
\* not changed while its statistics are being computed) ...
UtilsAppend(t) ==
  /\ impl = "utils" /\ \A u \in Threads : pc[u] = "idle"
  /\ Len(history) < cap
  /\ \E ts \in Times, v \in Values :
       /\ events' = Append(events, Event(ts, v))
       /\ history' = Append(history, Event(ts, v))
  /\ prev' = Remember(NoPrev)
  /\ UNCHANGED <<impl, clock, lock, pc, arg, cutoff, ccut, recent, seen, pre, callTime, cap, req, dbg, iters>>

\* ... and asks for the statistics of its last hour:
\* calculate_statistics(filter_recent_events(events, now)).
UtilsFilter(t) ==
  /\ impl = "utils" /\ pc[t] = "idle"
  /\ cutoff' = [cutoff EXCEPT ![t] = clock - TIME_WINDOW]
  /\ recent' = [recent EXCEPT ![t] = filter_recent_events(events, clock)]
  /\ seen' = [seen EXCEPT ![t] = Len(events)]
  /\ pc' = [pc EXCEPT ![t] = "ut_return"]
  /\ UNCHANGED <<impl, clock, events, lock, arg, ccut, history, pre, callTime, cap, prev, req, dbg, iters>>

UtilsReturn(t) ==
  /\ pc[t] = "ut_return"
  /\ cutoff' = [cutoff EXCEPT ![t] = NoCutoff]
  /\ recent' = [recent EXCEPT ![t] = <<>>]
  /\ seen' = [seen EXCEPT ![t] = None]
  /\ pc' = [pc EXCEPT ![t] = "idle"]
  /\ prev' = Remember(SummaryOf(t))
  /\ UNCHANGED <<impl, clock, events, lock, arg, ccut, history, pre, callTime, cap, req, dbg, iters>>

\* ------------------------------------------- main.py GET /debug/events
\* The deque's mutation counter, which its iterators compare on every step:
\* EventStore's deque has had one append per recorded event and one popleft
\* per event no longer stored.
DequeState == 2 * Len(history) - Len(events)

\* Line 63 reads the clock; line 66 creates the iterator over
\* storage._store._events.  The lock is not taken.
DebugCall(t) ==
  /\ impl = "store" /\ pc[t] = "idle"
  /\ cutoff' = [cutoff EXCEPT ![t] = clock - TIME_WINDOW]
  /\ dbg' = [dbg EXCEPT ![t] = [state |-> DequeState, listed |-> <<>>]]
  /\ pc' = [pc EXCEPT ![t] = "dbg_iter"]
  /\ UNCHANGED <<impl, clock, events, lock, arg, ccut, recent, history, seen, pre, callTime, cap, prev, req, iters>>

\* One step of the for loop: the next event is appended to events_info ...
DebugNext(t) ==
  /\ pc[t] = "dbg_iter"
  /\ dbg[t].state = DequeState
  /\ Len(dbg[t].listed) < Len(events)
  /\ dbg' = [dbg EXCEPT ![t].listed = Append(@, events[Len(dbg[t].listed) + 1])]
  /\ UNCHANGED <<impl, clock, events, lock, pc, arg, cutoff, ccut, recent, history, seen, pre, callTime, cap, prev, req, iters>>

\* ... or the iterator is exhausted and the listing is returned ...
DebugReturn(t) ==
  /\ pc[t] = "dbg_iter"
  /\ dbg[t].state = DequeState
  /\ Len(dbg[t].listed) = Len(events)
  /\ pc' = [pc EXCEPT ![t] = "dbg_200"]
  /\ UNCHANGED <<impl, clock, events, lock, arg, cutoff, ccut, recent, history, seen, pre, callTime, cap, prev, req, dbg, iters>>

\* ... or the deque was changed since the iterator was created:
\* RuntimeError("deque mutated during iteration"), which nothing catches.
DebugMutated(t) ==
  /\ pc[t] = "dbg_iter"
  /\ dbg[t].state # DequeState
  /\ pc' = [pc EXCEPT ![t] = "dbg_500"]
  /\ UNCHANGED <<impl, clock, events, lock, arg, cutoff, ccut, recent, history, seen, pre, callTime, cap, prev, req, dbg, iters>>

DebugRespond(t) ==
  /\ pc[t] \in {"dbg_200", "dbg_500"}
  /\ cutoff' = [cutoff EXCEPT ![t] = NoCutoff]
  /\ dbg' = [dbg EXCEPT ![t] = NoIter]
  /\ pc' = [pc EXCEPT ![t] = "idle"]
  /\ UNCHANGED <<impl, clock, events, lock, arg, ccut, recent, history, seen, pre, callTime, cap, prev, req, iters>>

DebugStep(t) ==
  \/ DebugCall(t) \/ DebugNext(t) \/ DebugReturn(t) \/ DebugMutated(t)
  \/ DebugRespond(t)

\* ------------------------------------------------------------------- Next
ServiceStep(t) ==
  \/ AddCall(t) \/ AddAcquire(t) \/ AddAppend(t) \/ AddRelease(t)
  \/ CleanupRead(t) \/ CleanupPop(t) \/ CleanupExit(t)
  \/ GsCall(t) \/ GsAcquire(t) \/ GsFilter(t) \/ GsReturn(t)
  \/ ClearCall(t) \/ ClearAcquire(t) \/ ClearBody(t) \/ ClearRelease(t)
  \/ CountCall(t) \/ CountAcquire(t) \/ CountReturn(t)

ThreadStep(t) ==
  \/ ServiceStep(t)
  \/ SeCall(t) \/ SeAcquire(t) \/ SeAppend(t) \/ SeRelease(t)
  \/ RsCall(t) \/ RsAcquire(t) \/ RsFilter(t) \/ RsPop(t) \/ RsLoopExit(t)
  \/ RsRelease(t) \/ RsReturn(t)
  \/ UtilsAppend(t) \/ UtilsFilter(t) \/ UtilsReturn(t)

Next == Tick \/ \E t \in Threads : ThreadStep(t)

\* Any number of threads calling concurrently.
Spec == Init /\ [][Next]_vars

\* One caller: the calls follow one another.
SeqNext == Tick \/ ThreadStep(1)

SeqSpec == SeqInit /\ [][SeqNext]_vars

\* Fair scheduling: a thread inside a call is not stopped for ever ...
Continue(t) ==
  \/ AddAppend(t) \/ AddRelease(t)
  \/ CleanupRead(t) \/ CleanupPop(t) \/ CleanupExit(t)
  \/ GsFilter(t) \/ GsReturn(t)
  \/ ClearBody(t) \/ ClearRelease(t) \/ CountReturn(t)
  \/ SeAppend(t) \/ SeRelease(t)
  \/ RsFilter(t) \/ RsPop(t) \/ RsLoopExit(t) \/ RsRelease(t) \/ RsReturn(t)
  \/ UtilsReturn(t)

\* ... and a thread that waits for the lock is not passed over for ever.
Acquire(t) ==
  \/ AddAcquire(t) \/ GsAcquire(t) \/ ClearAcquire(t) \/ CountAcquire(t)
  \/ SeAcquire(t) \/ RsAcquire(t)

Fairness == \A t \in Threads : WF_vars(Continue(t)) /\ SF_vars(Acquire(t))

FairSpec == Init /\ [][Next]_vars /\ Fairness

\* The FastAPI application of app/main.py adds the listing of the stored
\* events to the concurrent callers.
ListingNext == Next \/ \E t \in Threads : DebugStep(t)

ListingSpec == Init /\ [][ListingNext]_vars

\* The Flask application of app.py over its EventService, one request at a
\* time.
HttpInit == Start /\ impl = "service" /\ cap = MaxEvents /\ prev = Untracked

HttpNext == Tick \/ ServiceStep(1) \/ HttpStep(1)

HttpSpec == HttpInit /\ [][HttpNext]_vars

\* One caller who compares each summary with the one before.
TwiceSpec == TwiceInit /\ [][SeqNext]_vars

TypeOK ==
  /\ impl \in Impls
  /\ clock \in Times
  /\ lock \in Threads \cup {NoThread}
  /\ Len(events) <= cap /\ Len(history) <= cap
  /\ \A i \in 1..Len(events) : events[i].ts \in Times /\ events[i].value \in Values

\* --------------------------------------------------------------- results
\* How many recorded events have a timestamp in lo..hi.
CountIn(lo, hi) == Cardinality({i \in 1..Len(history) : lo <= history[i].ts /\ history[i].ts <= hi})
CountFrom(lo) == Cardinality({i \in 1..Len(history) : lo <= history[i].ts})

\* The recorded events the deque still held when the summary read it.
StoredAt(t) == SubSeq(history, Len(history) - seen[t] + 1, Len(history))
EvictedAt(t) == SubSeq(history, 1, Len(history) - seen[t])

Range(seq) == {seq[i] : i \in 1..Len(seq)}

\* The values of the events of seq with timestamp >= cut, in order.
AtOrAfter(cut, e) == e.ts >= cut
ValuesFrom(seq, cut) ==
  LET sel == SelectSeq(seq, LAMBDA e : AtOrAfter(cut, e))
  IN  [i \in 1..Len(sel) |-> sel[i].value]

\* ------------------------------------------------------------------- C1
\* C1 as stated: after a sequence of record calls, summary(now) counts the
\* recorded events whose timestamp lies in [now - 1h, now].
C1_Original ==
  \A t \in Threads : AtSummary(t) =>
    Returned(t).count = CountIn(cutoff[t], NowOf(t))

\* C1 (amended): after a sequence of record calls, summary(now) counts the
\* recorded events whose timestamp is >= now - 1h; there is no upper bound,
\* an event dated after now is counted too.
C1_CountIsEventsFromCutoff ==
  \A t \in Threads : AtSummary(t) =>
    Returned(t).count = CountFrom(cutoff[t])

\* A summary that counts an event of the last hour and one dated after now.
C1_Witness ==
  /\ AtSummary(1)
  /\ \E i \in 1..Len(history) : cutoff[1] <= history[i].ts /\ history[i].ts <= NowOf(1)
  /\ \E i \in 1..Len(history) : history[i].ts > NowOf(1)
  /\ Returned(1).count = 2

\* ------------------------------------------------------------------- C2
\* C2: no lost updates.  When every event recorded by the concurrent
\* add_event calls is in the window, a get_statistics that runs once they
\* have appended counts every one of them: count = N, whatever the
\* interleaving.
C2_NoLostUpdates ==
  \A t \in Threads :
    (impl = "service" /\ AtSummary(t) /\
     \A i \in 1..Len(history) : history[i].ts >= cutoff[t])
    => Returned(t).count = Len(history)

\* Two threads took part: one summarises two or more events while the other
\* is in the middle of a call of its own.
C2_Witness ==
  \E t, u \in Threads :
    /\ t # u /\ impl = "service" /\ AtSummary(t)
    /\ \A i \in 1..Len(history) : history[i].ts >= cutoff[t]
    /\ Returned(t).count >= 2
    /\ pc[u] \in {"add_wait", "gs_wait"}

\* ------------------------------------------------------------------- C3
\* C3: when get_statistics returns count > 0, min is the smallest and max
\* the largest value of the events recorded with timestamp >= cutoff, and
\* mean is their floating-point sum divided by their number.
C3_MinMaxMean ==
  \A t \in Threads :
    (impl = "service" /\ AtSummary(t) /\ Returned(t).count > 0) =>
      LET vals == ValuesFrom(history, cutoff[t])
          r == Returned(t)
      IN  /\ r.min \in Range(vals) /\ \A v \in Range(vals) : r.min <= v
          /\ r.max \in Range(vals) /\ \A v \in Range(vals) : r.max >= v
          /\ r.mean = RoundToFloat(PySum(vals), r.count)

\* Values 6 then 2 at one timestamp: count 2, min 2, max 6, mean 4.
C3_Witness ==
  /\ impl = "service" /\ AtSummary(1)
  /\ Len(history) = 2 /\ history[1].value = 6 /\ history[2].value = 2
  /\ history[1].ts = history[2].ts
  /\ Returned(1) = [count |-> 2, min |-> 2, max |-> 6, mean |-> 4]

\* ------------------------------------------------------------------- C4
IsSuffix(a, b) == \E k \in 0..Len(b) : a = SubSeq(b, k + 1, Len(b))

\* C4: an event older than now - 1h never contributes to a summary, in any
\* arrival order: the values a summary aggregates are values of recorded
\* events with timestamp >= cutoff only (the latest of them in arrival order).
C4_StaleNeverContributes ==
  \A t \in Threads : AtSummary(t) =>
    /\ IsSuffix(recent[t], ValuesFrom(history, cutoff[t]))
    /\ Returned(t).count = Len(recent[t])
    /\ Returned(t).count > 0 =>
         /\ Returned(t).min \in Range(ValuesFrom(history, cutoff[t]))
         /\ Returned(t).max \in Range(ValuesFrom(history, cutoff[t]))

\* The stale event is still stored, behind a newer event that is in the
\* window and stopped the eviction, and the summary counts only the newer one.
C4_Witness ==
  /\ AtSummary(1)
  /\ Len(events) = 2
  /\ events[1].ts >= cutoff[1] /\ events[2].ts < cutoff[1]
  /\ events[2].value # events[1].value
  /\ Returned(1).count = 1 /\ Returned(1).min = events[1].value

Last(seq) == seq[Len(seq)]

\* C6: strict serializability.  Every call takes effect as a whole at one
\* point between its start and its return: when it leaves its critical
\* section, the deque and the values it returns are those the handler gives
\* when it runs alone on the deque it found when it took the lock, with the
\* clock readings it made.  The run is the sequential run in lock order.
C6_EachCallActsAtomically ==
  \A t \in Threads :
    /\ pc[t] = "add_release" =>
         events = EvictPrefix(Append(pre, Last(history)), ccut[t])
    /\ pc[t] = "gs_return" =>
         /\ events = EvictPrefix(pre, ccut[t])
         /\ recent[t] = FilterRecent(EvictPrefix(pre, ccut[t]), cutoff[t])
    /\ pc[t] = "clr_release" => events = <<>>
    /\ pc[t] = "cnt_body" => events = pre
    /\ pc[t] = "se_release" => events = Append(pre, Last(history))
    /\ pc[t] = "rs_release" =>
         /\ events = EvictPrefix(pre, cutoff[t])
         /\ recent[t] = FilterRecent(pre, cutoff[t])

\* A summary that evicted an event ends its critical section while the other
\* thread, whose record call overlaps it, waits for the lock.
C6_Witness ==
  \E t, u \in Threads :
    /\ t # u /\ AtSummary(t)
    /\ Len(events) < Len(pre)
    /\ pc[u] \in {"add_wait", "se_wait"}

\* ------------------------------------------------------------------- C7
\* The statements inside a "with self._lock" block.
CriticalPcs ==
  {"add_append", "add_cleanup", "add_loop", "add_release",
   "gs_cleanup", "gs_loop", "gs_filter", "gs_return",
   "clr_body", "clr_release", "cnt_body",
   "se_append", "se_release", "rs_filter", "rs_loop", "rs_release"}

InCritical(t) == pc[t] \in CriticalPcs

\* C7: mutual exclusion.  No two threads are inside a record, summary,
\* eviction, clear or get_event_count critical section at the same time, and
\* a thread inside one (the eviction loop included) holds the lock.
C7_MutualExclusion ==
  /\ \A t, u \in Threads : (t # u) => ~(InCritical(t) /\ InCritical(u))
  /\ \A t \in Threads : InCritical(t) => lock = t

\* One thread is about to evict the oldest event while the other has asked
\* for the lock and waits.
C7_Witness ==
  \E t, u \in Threads :
    /\ t # u
    /\ pc[t] \in {"add_loop", "gs_loop", "rs_loop"}
    /\ events # <<>>
    /\ IsStale(Head(events), IF impl = "service" THEN ccut[t] ELSE cutoff[t])
    /\ pc[u] \in {"add_wait", "gs_wait", "clr_wait", "cnt_wait", "se_wait", "rs_wait"}

\* ------------------------------------------------------------------- C8
NonDecreasing(seq) == \A i, j \in 1..Len(seq) : (i < j) => seq[i].ts <= seq[j].ts

NoneOlderThan(cut) == \A i \in 1..Len(events) : events[i].ts >= cut

\* C8 as stated: when timestamps arrive in non-decreasing order, no stored
\* event is older than (call time - 1h) when a record or a summary call
\* returns; record evicts too.
C8_Original ==
  NonDecreasing(history) =>
    \A t \in Threads :
      /\ pc[t] \in {"add_release", "gs_return"} => NoneOlderThan(ccut[t])
      /\ pc[t] = "rs_release" => NoneOlderThan(cutoff[t])
      /\ pc[t] = "se_release" => NoneOlderThan(callTime[t] - TIME_WINDOW)

\* ------------------------------------------------------------------- C9
Absent(r) == r.min = None /\ r.max = None /\ r.mean = None
SomeAbsent(r) == r.min = None \/ r.max = None \/ r.mean = None

\* C9: a summary that finds no stored event with timestamp >= cutoff (an
\* empty store included) returns count = 0 with min, max and mean None, and
\* in every summary count = 0 exactly when min, max and mean are None
\* (EventService, EventStore and utils.calculate_statistics alike).
C9_EmptyIffAbsent ==
  \A t \in Threads : AtSummary(t) =>
    /\ (\A i \in 1..Len(StoredAt(t)) : StoredAt(t)[i].ts < cutoff[t])
         => Returned(t).count = 0 /\ Absent(Returned(t))
    /\ Returned(t).count = 0 <=> Absent(Returned(t))
    /\ Returned(t).count = 0 <=> SomeAbsent(Returned(t))

\* Events are stored, none of them in the window: count 0, all three None.
C9_Witness ==
  /\ AtSummary(1)
  /\ seen[1] >= 1
  /\ Returned(1).count = 0 /\ Absent(Returned(1))

\* ------------------------------------------------------------------ C10
\* C10: in every summary of EventService and of EventStore with count > 0,
\* min <= mean <= max.
C10_Original ==
  \A t \in Threads :
    (impl \in {"service", "store"} /\ AtSummary(t) /\ Returned(t).count > 0) =>
      Returned(t).min <= Returned(t).mean /\ Returned(t).mean <= Returned(t).max

\* ------------------------------------------------------------------ C11
\* C11: idempotence of reads.  A summary that follows another summary with
\* nothing recorded or cleared in between, and that uses the same now,
\* returns the same count, min, max and mean.
C11_SameSummaryTwice ==
  \A t \in Threads :
    (AtSummary(t) /\ prev # Untracked /\ prev.now = NowOf(t))
      => Returned(t) = prev.stats

\* The second of two such summaries; the first one counted an event and left
\* a stale one out.
C11_Witness ==
  /\ AtSummary(1) /\ prev # Untracked /\ prev.now = NowOf(1)
  /\ prev.stats.count >= 1 /\ Len(history) > prev.stats.count
  /\ Returned(1).count >= 1

\* ------------------------------------------------------------------ C12
\* An eviction run of thread t has ended and t still holds the lock.
EvictionDone(t) == pc[t] \in {"add_release", "gs_filter", "gs_return", "rs_release"}

\* The cutoff that run compared with, and the deque it started from.
EvictCut(t) == IF impl = "service" THEN ccut[t] ELSE cutoff[t]
EvictStart(t) == IF pc[t] = "add_release" THEN Append(pre, Last(history)) ELSE pre

\* The events the run removed: what is missing at the front.
Removed(t) == SubSeq(EvictStart(t), 1, Len(EvictStart(t)) - Len(events))

\* How many events of seq have timestamp exactly c / c or later.
CountAt(seq, c) == Cardinality({i \in 1..Len(seq) : seq[i].ts = c})
CountSince(seq, c) == Cardinality({i \in 1..Len(seq) : seq[i].ts >= c})

\* C12: the window boundary is inclusive.  A summary counts the stored
\* events with timestamp exactly at its cutoff together with the later ones
\* and nothing else; an eviction run removes none of the events exactly at
\* its cutoff, only events strictly before it; is_within_last_hour accepts
\* the cutoff itself and rejects the instant before it.
C12_BoundaryInclusive ==
  \A t \in Threads :
    /\ AtSummary(t) =>
         Returned(t).count =
           CountAt(StoredAt(t), cutoff[t]) + CountSince(StoredAt(t), cutoff[t] + 1)
    /\ EvictionDone(t) =>
         /\ Len(events) <= Len(EvictStart(t))
         /\ CountAt(events, EvictCut(t)) = CountAt(EvictStart(t), EvictCut(t))
         /\ \A i \in 1..Len(Removed(t)) : Removed(t)[i].ts < EvictCut(t)
    /\ pc[t] = "ut_return" =>
         /\ is_within_last_hour(cutoff[t], NowOf(t))
         /\ ~is_within_last_hour(cutoff[t] - 1, NowOf(t))

\* An eviction run with cutoff c removed a stale event and stopped at an
\* event dated exactly c, which the summary counts.
C12_Witness ==
  \E t \in Threads :
    /\ AtSummary(t) /\ EvictionDone(t) /\ EvictCut(t) = cutoff[t]
    /\ Len(Removed(t)) >= 1
    /\ events # <<>> /\ Head(events).ts = cutoff[t]
    /\ Returned(t).count >= 1

\* ------------------------------------------------------------------ C13
\* The stored events dated after the now of the summary of thread t.
Future(t) == SelectSeq(StoredAt(t), LAMBDA e : e.ts > NowOf(t))

\* The mean of vals as the implementation in use computes it.
MeanOf(vals) ==
  IF impl = "store" THEN RoundToFloat(ExactSum(vals), Len(vals))
  ELSE RoundToFloat(PySum(vals), Len(vals))

\* C13: no upper bound on the window.  A stored event dated after now is
\* included in summary(now): it is counted, its value is among the values
\* aggregated, min and max range over it, and it enters the mean.
C13_FutureEventsIncluded ==
  \A t \in Threads :
    (AtSummary(t) /\ Future(t) # <<>>) =>
      LET vals == ValuesFrom(StoredAt(t), cutoff[t])
          r == Returned(t)
      IN  /\ r.count = Len(vals) /\ r.count >= Len(Future(t))
          /\ \A i \in 1..Len(Future(t)) :
                /\ Future(t)[i].value \in Range(recent[t])
                /\ r.min <= Future(t)[i].value /\ Future(t)[i].value <= r.max
          /\ r.mean = MeanOf(vals)

\* One event of the last hour with value 2 and one dated after now with
\* value 6: count 2, max 6, mean 4.
C13_Witness ==
  /\ AtSummary(1) /\ Len(Future(1)) = 1 /\ Future(1)[1].value = 6
  /\ Returned(1) = [count |-> 2, min |-> 2, max |-> 6, mean |-> 4]

\* ------------------------------------------------------------------ C14
\* Every event of seq older than cut arrived before every event that is not.
OldBeforeNew(seq, cut) ==
  \A i, j \in 1..Len(seq) : (seq[i].ts >= cut /\ seq[j].ts < cut) => j < i

\* C14 as stated: when every out-of-window event arrived before every
\* in-window event, the number of events stored when get_statistics returns
\* (what get_event_count then reports) equals the count it returns.
C14_Original ==
  \A t \in Threads :
    (pc[t] = "gs_return" /\ OldBeforeNew(history, cutoff[t]))
      => Len(events) = Returned(t).count

\* ------------------------------------------------------------------ C15
\* A request the claim calls valid: a JSON object with a timestamp that
\* parses and a value that is a number.
ValidBody(b) == b.json = "object" /\ TimestampParses(b.ts) /\ b.value.kind = "number"

\* C15 as stated: when POST /event answers, a request whose body is missing
\* or lacks 'timestamp' or 'value', or whose timestamp does not parse or
\* whose value is no number, gets a 4xx status and add_event has not been
\* called for it; a valid request gets a 2xx status after add_event has
\* appended its event.
C15_Original ==
  \A t \in Threads :
    pc[t] \in ResponsePcs =>
      IF ValidBody(req[t])
        THEN Status(t) \in 200..299 /\ pc[t] = "post_201"
        ELSE Status(t) \in 400..499 /\ pc[t] # "post_201"

\* ------------------------------------------------------------------ C16
\* An eviction run of thread t is under way or has just ended.
Evicting(t) == pc[t] \in {"add_loop", "gs_loop", "rs_loop"}

\* The deque the run under way started from.
LoopStart(t) == IF pc[t] = "add_loop" THEN Append(pre, Last(history)) ELSE pre

\* C16: eviction with cutoff c removes exactly the longest prefix of events
\* older than c.  While the loop runs the deque is a suffix of the one it
\* started from and everything removed is older than c; when it has ended
\* the rest is unchanged in content and order and is empty or begins with an
\* event not older than c, whatever the order of the timestamps.
C16_EvictsLongestStalePrefix ==
  \A t \in Threads :
    /\ Evicting(t) =>
         LET k == Len(LoopStart(t)) - Len(events)
         IN  /\ k >= 0
             /\ events = SubSeq(LoopStart(t), k + 1, Len(LoopStart(t)))
             /\ \A i \in 1..k : LoopStart(t)[i].ts < EvictCut(t)
    /\ EvictionDone(t) =>
         LET k == Len(EvictStart(t)) - Len(events)
         IN  /\ k >= 0
             /\ events = SubSeq(EvictStart(t), k + 1, Len(EvictStart(t)))
             /\ \A i \in 1..k : EvictStart(t)[i].ts < EvictCut(t)
             /\ events = <<>> \/ Head(events).ts >= EvictCut(t)

\* Out-of-order arrival: the run removed the stale front event and stopped at
\* an event of the window, leaving a stale event stored behind it.
C16_Witness ==
  \E t \in Threads :
    /\ EvictionDone(t) /\ Len(Removed(t)) >= 1
    /\ Len(events) >= 2
    /\ Head(events).ts >= EvictCut(t)
    /\ events[2].ts < EvictCut(t)

\* ------------------------------------------------------------------ C17
\* Thread t is at a step that reads the deque ...
Reads(t) == pc[t] \in {"gs_filter", "cnt_body", "rs_filter", "dbg_iter"}

\* ... or at one that changes it, or tests its front event to change it.
Mutates(t) == pc[t] \in {"add_append", "add_loop", "gs_loop", "clr_body", "se_append", "rs_loop"}

\* C17: every read and every mutation of the stored sequence, the listing of
\* /debug/events included, happens while the lock is held, so that no thread
\* iterates the sequence while another appends to it or evicts from it.
C17_Original ==
  /\ \A t \in Threads : Reads(t) \/ Mutates(t) => lock = t
  /\ \A t, u \in Threads : t # u => ~(Reads(t) /\ Mutates(u))

\* ------------------------------------------------------------------ C18
\* The eviction loop of thread t has called popleft at most once per event
\* the deque held when the loop was entered.
LoopBounded(t) == Evicting(t) => iters[t] <= Len(LoopStart(t))

\* C18: under fair scheduling every call returns with the lock released: a
\* thread that waits for the lock gets it, the eviction run inside the lock
\* ends, and the thread is idle again without the lock; the eviction loop
\* runs at most as many times as there are stored events.
C18_CallsReturn ==
  /\ \A t \in Threads : (pc[t] # "idle") ~> (pc[t] = "idle" /\ lock # t)
  /\ \A t \in Threads : (lock = t) ~> (lock # t)
  /\ [](\A t \in Threads : LoopBounded(t))

\* One thread waits for the lock while the other, holding it, is in the
\* eviction loop and has removed every event the deque held.
C18_Witness ==
  \E t, u \in Threads :
    /\ pc[t] \in {"add_wait", "gs_wait", "se_wait", "rs_wait"}
    /\ lock = u /\ Evicting(u)
    /\ iters[u] = 2 /\ iters[u] = Len(LoopStart(u))

\* ------------------------------------------------------------------ C19
\* C19: the stored sequence of EventService and of EventStore changes only
\* in a step of a record, summary or clear call (taken by the thread that
\* holds the lock); a step in which the clock advances leaves it unchanged,
\* so stale events stay stored until the next call.
C19_EvictionOnlyInCalls ==
  [][impl # "utils" =>
       /\ events' # events => (clock' = clock /\ \E t \in Threads : Mutates(t) /\ lock = t)
       /\ clock' # clock => events' = events]_vars

\* Nobody is inside a call, the clock has advanced, and the front event of
\* EventService's deque, now older than the window, is still stored.
C19_Witness ==
  /\ impl = "service" /\ clock = MaxTime
  /\ \A t \in Threads : pc[t] = "idle"
  /\ events # <<>> /\ Head(events).ts < clock - TIME_WINDOW

\* ------------------------------------------------------------------ C20
\* C20: in every state the stored sequence is the last Len(events) entries of
\* the arrival history since the last clear, pair for pair and in arrival
\* order: nothing stored was altered, duplicated or made up, and an event is
\* gone only if every event that arrived before it is gone.
C20_StoredIsSuffixOfHistory ==
  /\ Len(events) <= Len(history)
  /\ \A i \in 1..Len(events) : events[i] = history[Len(history) - Len(events) + i]

\* The older of two different recorded events has been evicted, the newer one
\* is stored.
C20_Witness ==
  /\ Len(history) = 2 /\ history[1] # history[2]
  /\ events = <<history[2]>>

\* ------------------------------------------------------------------ C21
\* The reference store: it never evicts, and a summary at now filters every
\* recorded event by timestamp >= now - 1h.
Reference(now) == calculate_statistics(filter_recent_events(history, now))

\* C21: eviction cannot be seen through summary: whatever record and summary
\* calls came before (the clock never goes back), each summary returns the
\* count, min and max of the reference store; so EventService and EventStore,
\* which evict at different moments, return the same for the same calls.
C21_EvictionUnobservable ==
  \A t \in Threads : AtSummary(t) =>
    LET ref == Reference(NowOf(t))
    IN  /\ Returned(t).count = ref.count
        /\ Returned(t).min = ref.min
        /\ Returned(t).max = ref.max

\* A summary of EventService after an eviction: a recorded event is gone from
\* the deque, and the summary still reports a recorded event.
C21_Witness ==
  \E t \in Threads :
    /\ AtSummary(t) /\ impl = "service"
    /\ Len(events) < Len(history)
    /\ Returned(t).count >= 1

\* ------------------------------------------------------------------ C22
\* The recorded events as a multiset: how often each event was recorded,
\* whatever the order of arrival.
RECURSIVE BagOf(_)
BagOf(seq) == IF seq = <<>> THEN EmptyBag ELSE BagOf(Tail(seq)) (+) SetToBag({Head(seq)})

\* The part of a multiset of events with timestamp >= cut, and its values.
FromCutoff(B, cut) == [e \in {x \in BagToSet(B) : x.ts >= cut} |-> B[e]]
ValuesOf(B) == {e.value : e \in BagToSet(B)}

Least(S) == IF S = {} THEN None ELSE CHOOSE v \in S : \A w \in S : v <= w
Greatest(S) == IF S = {} THEN None ELSE CHOOSE v \in S : \A w \in S : v >= w

\* C22: the count, min and max of a summary are determined by the multiset
\* of recorded events and now alone, so recording the same events in another
\* order gives the same summary, even where the order decides which stale
\* events are still stored.
C22_OrderIndependent ==
  \A t \in Threads : AtSummary(t) =>
    LET win == FromCutoff(BagOf(history), cutoff[t])
    IN  /\ Returned(t).count = BagCardinality(win)
        /\ Returned(t).min = Least(ValuesOf(win))
        /\ Returned(t).max = Greatest(ValuesOf(win))

\* The order mattered for the deque, not for the summary: a stale event that
\* arrived after an event of the window is still stored behind it, where in
\* the opposite order it would have been evicted, and the summary reports
\* two different values.
C22_Witness ==
  \E t \in Threads :
    /\ AtSummary(t) /\ impl = "service"
    /\ Len(events) = 3 /\ events[1].ts >= cutoff[t] /\ events[2].ts < cutoff[t]
    /\ Returned(t).min < Returned(t).max

\* ------------------------------------------------------------------ C23
\* C23: in EventStore, under every interleaving of get_recent_stats and
\* store_event calls, the count a summary returns is the number of events
\* recorded before it took the lock with timestamp >= its own cutoff (the
\* cutoff it read before the lock): no such event is missing because another
\* summary with a later cutoff evicted it first.
C23_Original ==
  \A t \in Threads :
    impl = "store" /\ pc[t] = "rs_release" =>
      Len(recent[t]) = Cardinality({i \in 1..Len(history) : history[i].ts >= cutoff[t]})

\* ------------------------------------------------------------------ C24
\* C24: add_event appends before it evicts.  When the call is about to return
\* (eviction done, lock still held) the event it recorded is the last stored
\* element, unless that event is older than the cutoff of this call and so
\* was everything stored before it: then the call has evicted it with the
\* rest and the deque is empty.
C24_NewEventLastOrEvicted ==
  \A t \in Threads :
    pc[t] = "add_release" =>
      LET new == Last(history)
          allStale == new.ts < ccut[t] /\ \A i \in 1..Len(pre) : pre[i].ts < ccut[t]
      IN  IF allStale THEN events = <<>>
          ELSE events # <<>> /\ events[Len(events)] = new /\ Len(events) <= Len(pre) + 1

\* The exception: a stale event is recorded while only a stale event was
\* stored, and the call evicts both.
C24_Witness ==
  \E t \in Threads :
    /\ pc[t] = "add_release" /\ pre # <<>>
    /\ Last(history).ts < ccut[t]
    /\ events = <<>>

=============================================================================
